---- MODULE Spec2Model ----
(***************************************************************************)
(* musik_std: the bit-packed harmonic formula types.                       *)
(*                                                                         *)
(*   ChordFormula(u32)   2 bits per degree 1..15, bits 30-31 reserved      *)
(*   ScaleFormula(u32)   1 bit per semitone 0..23, bits 24-31 reserved     *)
(*   FormulaDegree       Natural(u8) | Flat(u8) | Sharp(u8)                *)
(*   DegreeAlteration    None | Flat | Sharp, with a u8 codec              *)
(*                                                                         *)
(* Every operation of the library is a function of copy values.  A u32 is  *)
(* modelled as the set of its set bit positions (a subset of 0..31), so    *)
(* the width is exact and |, &, !, <<, >> are the set operations below.    *)
(* The state is one call: the receiver `self`, the operation `op`, its     *)
(* arguments `arg` and what it returned, `ret`.                            *)
(***************************************************************************)
EXTENDS Integers, Sequences, FiniteSets

VARIABLES self, op, arg, ret

vars == <<self, op, arg, ret>>

(***************************************************************************)
(* Machine integers                                                        *)
(***************************************************************************)
WordBits == 32

U8Max == 255

U8 == 0..U8Max

BitIdx == 0..(WordBits - 1)

\* The bits of the u32 n * 2^i, for a literal n < 2^31 (binary expansion of n).
RECURSIVE LitFrom(_, _)
LitFrom(n, i) ==
    IF n = 0 \/ i >= WordBits THEN {}
    ELSE (IF n % 2 = 1 THEN {i} ELSE {}) \cup LitFrom(n \div 2, i + 1)

\* The u32 whose value is the literal n.
Lit(n) == LitFrom(n, 0)

BitOr(a, b) == a \cup b

BitAnd(a, b) == a \cap b

BitNot(a) == BitIdx \ a

\* a << k and a >> k for k < 32: bits shifted past either end are lost.
Shl(a, k) == {i + k : i \in {j \in a : j + k < WordBits}}

Shr(a, k) == {i - k : i \in {j \in a : j >= k}}

\* a <= b on u32: equal, or the highest bit in which they differ is b's.
U32Leq(a, b) ==
    \/ a = b
    \/ \E i \in b \ a : \A j \in a \ b : j < i

\* u8::wrapping_add, which saturating_add is not
wrapping_add(a, b) == (a + b) % (U8Max + 1)

\* u8::saturating_add
saturating_add(a, b) == IF a + b > U8Max THEN U8Max ELSE a + b

(***************************************************************************)
(* Option<T>: None is the empty sequence, Some(v) the one-element one.     *)
(***************************************************************************)
NoneOption == <<>>

Some(v) == <<v>>

(***************************************************************************)
(* DegreeAlteration and its u8 codec (degree_alteration.rs)                *)
(***************************************************************************)
DegreeAlteration == {"None", "Flat", "Sharp"}

\* Faulty variant of the encoder: the codes of Flat and Sharp are exchanged.
AlterationToU8_swapped(alteration) ==
    CASE alteration = "None" -> 1
      [] alteration = "Flat" -> 3
      [] alteration = "Sharp" -> 2

\* impl From<DegreeAlteration> for u8
AlterationToU8(alteration) ==
    CASE alteration = "None" -> 1
      [] alteration = "Flat" -> 2
      [] alteration = "Sharp" -> 3

\* Faulty variant of the decoder: code 0 decodes to None instead of panicking.
AlterationFromU8_zero_is_none(value) ==
    CASE value \in {0, 1} -> [panicked |-> FALSE, val |-> "None"]
      [] value = 2 -> [panicked |-> FALSE, val |-> "Flat"]
      [] value = 3 -> [panicked |-> FALSE, val |-> "Sharp"]
      [] OTHER -> [panicked |-> TRUE, val |-> "None"]

\* impl From<u8> for DegreeAlteration: any code but 1, 2, 3 panics.
AlterationFromU8(value) ==
    CASE value = 1 -> [panicked |-> FALSE, val |-> "None"]
      [] value = 2 -> [panicked |-> FALSE, val |-> "Flat"]
      [] value = 3 -> [panicked |-> FALSE, val |-> "Sharp"]
      [] OTHER -> [panicked |-> TRUE, val |-> "None"]

(***************************************************************************)
(* The codec calls: take a u8 or a DegreeAlteration, convert it once.      *)
(***************************************************************************)
AlterationConstructors == {"u8", "alteration"}

\* let value: u8 = ...;
CodeValue(value) ==
    /\ self = value
    /\ op = "u8"
    /\ arg = <<>>
    /\ ret = value

\* let alteration = DegreeAlteration::None; or ::Flat, ::Sharp
AlterationValue(alteration) ==
    /\ self = alteration
    /\ op = "alteration"
    /\ arg = <<>>
    /\ ret = alteration

InitAlteration ==
    \/ \E value \in U8 : CodeValue(value)
    \/ \E alteration \in DegreeAlteration : AlterationValue(alteration)

\* DegreeAlteration::from(value)
FromU8 ==
    /\ op = "u8"
    /\ op' = "from_u8"
    /\ arg' = <<>>
    /\ ret' = AlterationFromU8(self)
    /\ UNCHANGED self

\* u8::from(alteration)
IntoU8 ==
    /\ op = "alteration"
    /\ op' = "into_u8"
    /\ arg' = <<>>
    /\ ret' = AlterationToU8(self)
    /\ UNCHANGED self

NextAlteration ==
    \/ FromU8
    \/ IntoU8

SpecAlteration == InitAlteration /\ [][NextAlteration]_vars

ChordEmpty == {}

\* Faulty variant of new: the reserved bits 30-31 are dropped.
ChordNew_degree_bits_only(bits) == bits \ {30, 31}

ChordNew(bits) == bits

ChordBits(x) == x

ChordIsEmpty(x) == x = Lit(0)

\* Faulty variants of with_degree: a mask of four bits, and a range check that
\* lets degree 16 through to the reserved bits.
with_degree_wide_mask(x, degree, alteration) ==
    IF degree = 0 \/ degree > 15 THEN x
    ELSE LET shift == (degree - 1) * 2
         IN  BitOr(BitAnd(x, BitNot(Shl(Lit(15), shift))),
                   Shl(Lit(AlterationToU8(alteration)), shift))

with_degree_off_by_one(x, degree, alteration) ==
    IF degree = 0 \/ degree > 16 THEN x
    ELSE LET shift == (degree - 1) * 2
         IN  BitOr(BitAnd(x, BitNot(Shl(Lit(3), shift))),
                   Shl(Lit(AlterationToU8(alteration)), shift))

\* Faulty variants of with_degree: slots counted from degree 0, so that degree
\* 15 lands on the reserved bits; and the natural alteration written as code 0.
with_degree_shift_from_zero(x, degree, alteration) ==
    IF degree = 0 \/ degree > 15 THEN x
    ELSE LET shift == degree * 2
         IN  BitOr(BitAnd(x, BitNot(Shl(Lit(3), shift))),
                   Shl(Lit(AlterationToU8(alteration)), shift))

\* Another: the new code is ORed in without clearing the slot first.
with_degree_no_clear(x, degree, alteration) ==
    IF degree = 0 \/ degree > 15 THEN x
    ELSE BitOr(x, Shl(Lit(AlterationToU8(alteration)), (degree - 1) * 2))

with_degree_natural_as_zero(x, degree, alteration) ==
    IF degree = 0 \/ degree > 15 THEN x
    ELSE LET shift == (degree - 1) * 2
             value == CASE alteration = "None" -> 0
                        [] alteration = "Flat" -> 2
                        [] alteration = "Sharp" -> 3
         IN  BitOr(BitAnd(x, BitNot(Shl(Lit(3), shift))), Shl(Lit(value), shift))

with_degree(x, degree, alteration) ==
    IF degree = 0 \/ degree > 15 THEN x
    ELSE LET value == CASE alteration = "None" -> 1
                        [] alteration = "Flat" -> 2
                        [] alteration = "Sharp" -> 3
             shift == (degree - 1) * 2
             mask  == BitNot(Shl(Lit(3), shift))
             new_bits == BitOr(BitAnd(x, mask), Shl(Lit(value), shift))
         IN  new_bits

\* Faulty variant of has_degree: any code in the slot counts.
has_degree_nonzero(x, degree, alteration) ==
    IF degree = 0 \/ degree > 15 THEN FALSE
    ELSE BitAnd(Shr(x, (degree - 1) * 2), Lit(3)) # Lit(0)

has_degree(x, degree, alteration) ==
    IF degree = 0 \/ degree > 15 THEN FALSE
    ELSE LET expected == CASE alteration = "None" -> 1
                           [] alteration = "Flat" -> 2
                           [] alteration = "Sharp" -> 3
             shift == (degree - 1) * 2
             actual_value == BitAnd(Shr(x, shift), Lit(3))
         IN  actual_value = Lit(expected)

has_any_degree(x, degree) ==
    IF degree = 0 \/ degree > 15 THEN FALSE
    ELSE LET shift == (degree - 1) * 2
             value == BitAnd(Shr(x, shift), Lit(3))
         IN  value # Lit(0)

\* Faulty variant of get_degree_alteration: only the low bit of the slot is read.
get_degree_alteration_low_bit(x, degree) ==
    IF degree = 0 \/ degree > 15 THEN NoneOption
    ELSE LET value == BitAnd(Shr(x, (degree - 1) * 2), Lit(1))
         IN  IF value = Lit(0) THEN NoneOption ELSE Some("None")

get_degree_alteration(x, degree) ==
    IF degree = 0 \/ degree > 15 THEN NoneOption
    ELSE LET shift == (degree - 1) * 2
             value == BitAnd(Shr(x, shift), Lit(3))
         IN  CASE value = Lit(0) -> NoneOption
               [] value = Lit(1) -> Some("None")
               [] value = Lit(2) -> Some("Flat")
               [] value = Lit(3) -> Some("Sharp")
               [] OTHER -> NoneOption

\* the loop of degrees(): for degree in 1..=15, from `degree` on
RECURSIVE DegreesFrom(_, _)
DegreesFrom(x, degree) ==
    IF degree > 15 THEN <<>>
    ELSE LET found == get_degree_alteration(x, degree)
         IN  (IF found # NoneOption THEN <<<<degree, found[1]>>>> ELSE <<>>)
                \o DegreesFrom(x, degree + 1)

\* Faulty variant of degrees: the loop stops before degree 15 (1..15).
degrees_exclusive_range(x) ==
    SelectSeq(DegreesFrom(x, 1), LAMBDA pair : pair[1] < 15)

degrees(x) == DegreesFrom(x, 1)

\* Faulty variant of union: bitwise AND.
chord_union_and(x, other) == BitAnd(x, other)

\* A slot-aware merge (other's slot where it is set, else x's): what union is NOT.
chord_union_slotwise(x, other) ==
    UNION {LET slot == {2 * k, 2 * k + 1}
           IN  IF other \cap slot # {} THEN other \cap slot ELSE x \cap slot
           : k \in 0..15}

chord_union(x, other) == BitOr(x, other)

\* ChordFormula(0).with_degree(d1, a1).with_degree(d2, a2)... for a list of <<d, a>>
RECURSIVE WithDegrees(_, _)
WithDegrees(x, calls) ==
    IF calls = <<>> THEN x
    ELSE WithDegrees(with_degree(x, Head(calls)[1], Head(calls)[2]), Tail(calls))

major_triad == WithDegrees(Lit(0), <<<<1, "None">>, <<3, "None">>, <<5, "None">>>>)

minor_triad == WithDegrees(Lit(0), <<<<1, "None">>, <<3, "Flat">>, <<5, "None">>>>)

major_seventh ==
    WithDegrees(Lit(0), <<<<1, "None">>, <<3, "None">>, <<5, "None">>, <<7, "None">>>>)

\* Faulty variant of minor_seventh: the third is natural.
minor_seventh_natural_third ==
    WithDegrees(Lit(0), <<<<1, "None">>, <<3, "None">>, <<5, "None">>, <<7, "Flat">>>>)

minor_seventh ==
    WithDegrees(Lit(0), <<<<1, "None">>, <<3, "Flat">>, <<5, "None">>, <<7, "Flat">>>>)

dominant_seventh ==
    WithDegrees(Lit(0), <<<<1, "None">>, <<3, "None">>, <<5, "None">>, <<7, "Flat">>>>)

dominant_seventh_sharp_ninth ==
    WithDegrees(Lit(0), <<<<1, "None">>, <<3, "None">>, <<5, "None">>, <<7, "Flat">>,
                          <<9, "Sharp">>>>)

major_thirteenth ==
    WithDegrees(Lit(0), <<<<1, "None">>, <<3, "None">>, <<5, "None">>, <<7, "None">>,
                          <<9, "None">>, <<11, "None">>, <<13, "None">>>>)

altered_dominant ==
    WithDegrees(Lit(0), <<<<1, "None">>, <<3, "None">>, <<7, "Flat">>, <<9, "Flat">>,
                          <<9, "Sharp">>, <<11, "Sharp">>, <<13, "Flat">>>>)

NamedChordNames ==
    {"major_triad", "minor_triad", "major_seventh", "minor_seventh", "dominant_seventh",
     "dominant_seventh_sharp_ninth", "major_thirteenth", "altered_dominant"}

NamedChord(name) ==
    CASE name = "major_triad" -> major_triad
      [] name = "minor_triad" -> minor_triad
      [] name = "major_seventh" -> major_seventh
      [] name = "minor_seventh" -> minor_seventh
      [] name = "dominant_seventh" -> dominant_seventh
      [] name = "dominant_seventh_sharp_ninth" -> dominant_seventh_sharp_ninth
      [] name = "major_thirteenth" -> major_thirteenth
      [] name = "altered_dominant" -> altered_dominant

(***************************************************************************)
(* Inputs of the chord calls                                               *)
(***************************************************************************)
\* Raw words handed to ChordFormula::new hold at most MaxRawSlots non-zero
\* 2-bit fields (the 15 degree slots and the reserved field, bits 30-31).
MaxRawSlots == 1

\* Degree arguments run over 0..MaxDegreeInput and the largest u8.
MaxDegreeInput == 16

SlotWord(field, code) == Shl(Lit(code), (field - 1) * 2)

SparseChords ==
    {UNION {SlotWord(p[i][1], p[i][2]) : i \in 1..MaxRawSlots} :
        p \in [1..MaxRawSlots -> (1..16) \X (0..3)]}

\* 0xFFFFFFFF, 0x55555555 (every field natural), 0xAAAAAAAA (every field flat)
DenseChords == {BitNot(Lit(0)), Lit(1431655765), BitNot(Lit(1431655765))}

RawChords == SparseChords \cup DenseChords

DegreeInputs == (0..MaxDegreeInput) \cup {U8Max}

OtherChords ==
    {with_degree(ChordEmpty, d, a) : d \in 1..15, a \in DegreeAlteration}
        \cup {NamedChord(n) : n \in NamedChordNames}

ChordConstructors == {"empty", "new"} \cup NamedChordNames

(***************************************************************************)
(* The chord calls.  A behaviour constructs a formula and calls one method *)
(* on it: the receiver is a copy value that no call changes, so a call     *)
(* made after another call on the same receiver returns what it returns    *)
(* when made first.                                                        *)
(***************************************************************************)
\* let x = ChordFormula::empty();
Empty ==
    /\ self = ChordEmpty
    /\ op = "empty"
    /\ arg = <<>>
    /\ ret = ChordEmpty

\* let x = ChordFormula::new(bits);
New(bits) ==
    /\ self = ChordNew(bits)
    /\ op = "new"
    /\ arg = [bits |-> bits]
    /\ ret = ChordNew(bits)

\* let x = ChordFormula::major_triad(); and the other named constructors
Named(name) ==
    /\ self = NamedChord(name)
    /\ op = name
    /\ arg = <<>>
    /\ ret = NamedChord(name)

Init ==
    \/ Empty
    \/ \E bits \in RawChords : New(bits)
    \/ \E name \in NamedChordNames : Named(name)

\* x.with_degree(degree, alteration)
WithDegree(degree, alteration) ==
    /\ op \in ChordConstructors
    /\ op' = "with_degree"
    /\ arg' = [degree |-> degree, alteration |-> alteration]
    /\ ret' = with_degree(self, degree, alteration)
    /\ UNCHANGED self

\* x.has_degree(degree, alteration)
HasDegree(degree, alteration) ==
    /\ op \in ChordConstructors
    /\ op' = "has_degree"
    /\ arg' = [degree |-> degree, alteration |-> alteration]
    /\ ret' = has_degree(self, degree, alteration)
    /\ UNCHANGED self

\* x.has_any_degree(degree)
HasAnyDegree(degree) ==
    /\ op \in ChordConstructors
    /\ op' = "has_any_degree"
    /\ arg' = [degree |-> degree]
    /\ ret' = has_any_degree(self, degree)
    /\ UNCHANGED self

\* x.get_degree_alteration(degree)
GetDegreeAlteration(degree) ==
    /\ op \in ChordConstructors
    /\ op' = "get_degree_alteration"
    /\ arg' = [degree |-> degree]
    /\ ret' = get_degree_alteration(self, degree)
    /\ UNCHANGED self

\* x.union(other)
Union(other) ==
    /\ op \in ChordConstructors
    /\ op' = "union"
    /\ arg' = [other |-> other]
    /\ ret' = chord_union(self, other)
    /\ UNCHANGED self

\* x.degrees()
Degrees ==
    /\ op \in ChordConstructors
    /\ op' = "degrees"
    /\ arg' = <<>>
    /\ ret' = degrees(self)
    /\ UNCHANGED self

\* x.bits()
Bits ==
    /\ op \in ChordConstructors
    /\ op' = "bits"
    /\ arg' = <<>>
    /\ ret' = ChordBits(self)
    /\ UNCHANGED self

Next ==
    \/ \E degree \in DegreeInputs, alteration \in DegreeAlteration :
            WithDegree(degree, alteration)
    \/ \E degree \in DegreeInputs, alteration \in DegreeAlteration :
            HasDegree(degree, alteration)
    \/ \E degree \in DegreeInputs : HasAnyDegree(degree)
    \/ \E degree \in DegreeInputs : GetDegreeAlteration(degree)
    \/ \E other \in OtherChords : Union(other)
    \/ Degrees
    \/ Bits

Spec == Init /\ [][Next]_vars

(***************************************************************************)
(* Properties of the chord calls (checked under Spec)                      *)
(***************************************************************************)
\* The 2-bit code held in bits (degree-1)*2 and (degree-1)*2+1 of x, read bit by bit.
SlotCode(x, degree) ==
    (IF (degree - 1) * 2 \in x THEN 1 ELSE 0)
        + (IF (degree - 1) * 2 + 1 \in x THEN 2 ELSE 0)

\* C1: for every degree d in 1..=15 and alteration a,
\* empty().with_degree(d, a).has_degree(d, a) is true and has_degree(d, a2) is
\* false for each of the two other alterations a2.
C1_WriteThenRead ==
    (op = "with_degree" /\ self = ChordEmpty /\ arg.degree \in 1..15) =>
        \A a2 \in DegreeAlteration :
            has_degree(ret, arg.degree, a2) = (a2 = arg.alteration)

C1_Witness ==
    /\ op = "with_degree"
    /\ self = ChordEmpty
    /\ arg = [degree |-> 15, alteration |-> "Flat"]
    /\ has_degree(ret, 15, "Flat")
    /\ ~has_degree(ret, 15, "Sharp")

\* C2: for every formula x, degree d in 1..=15 and alteration a, the two bits
\* of x.with_degree(d, a) at offset (d-1)*2 hold u8::from(a) (None=1, Flat=2,
\* Sharp=3) and each of the other 30 bits, reserved bits 30 and 31 included,
\* equals the same bit of x.
C2_WithDegreeFrame ==
    (op = "with_degree" /\ arg.degree \in 1..15) =>
        /\ SlotCode(ret, arg.degree) = AlterationToU8(arg.alteration)
        /\ AlterationToU8(arg.alteration) \in 1..3
        /\ \A i \in BitIdx \ {(arg.degree - 1) * 2, (arg.degree - 1) * 2 + 1} :
                (i \in ret) <=> (i \in self)

\* with_degree overwrites a slot that held another code, in a word whose
\* neighbouring slot and reserved bits are set.
C2_Witness ==
    /\ op = "with_degree"
    /\ arg = [degree |-> 8, alteration |-> "Flat"]
    /\ self = BitNot(Lit(0))
    /\ SlotCode(ret, 8) = 2
    /\ {30, 31} \subseteq ret
    /\ ret # self

\* C3: for every degree d in 1..=15, the union of a formula holding d with one
\* alteration and a formula holding d with a different alteration holds d as
\* Sharp; natural (01) with flat (10) gives sharp (11), held by neither operand.
C3_UnionConflictIsSharp ==
    (op = "union") =>
        \A d \in 1..15 :
            \A a \in DegreeAlteration, b \in DegreeAlteration :
                (a # b /\ has_degree(self, d, a) /\ has_degree(arg.other, d, b)) =>
                    /\ get_degree_alteration(ret, d) = Some("Sharp")
                    /\ has_degree(ret, d, "Sharp")

C3_Witness ==
    /\ op = "union"
    /\ has_degree(self, 3, "None")
    /\ has_degree(arg.other, 3, "Flat")
    /\ get_degree_alteration(ret, 3) = Some("Sharp")
    /\ ~has_degree(self, 3, "Sharp")
    /\ ~has_degree(arg.other, 3, "Sharp")

\* C6: altered_dominant() is 1 - 3 - b7 - b9 - #9 - #11 - b13: the flat 9th and
\* the sharp 9th are both present in the returned formula.
C6_AlteredDominantBothNinths ==
    (op = "altered_dominant") =>
        /\ has_degree(ret, 9, "Flat")
        /\ has_degree(ret, 9, "Sharp")

\* C9: for every formula x and alteration a, x.with_degree(d, a) == x when d = 0
\* or d is in 16..=255.
C9_OutOfRangeDegreeIsNoOp ==
    /\ (op = "with_degree" /\ arg.degree \notin 1..15) => ret = self
    /\ (op \in ChordConstructors) =>
            \A d \in U8 \ (1..15), a \in DegreeAlteration : with_degree(self, d, a) = self

C9_Witness ==
    /\ op = "with_degree"
    /\ arg.degree = 16
    /\ self # ChordEmpty
    /\ ~({30, 31} \subseteq self)
    /\ ret = self

\* What get_degree_alteration is said to return: None when the degree is outside
\* 1..=15 or its slot is 0, else Some of the alteration decoded from the slot.
DecodedSlot(x, d) ==
    IF d \notin 1..15 \/ SlotCode(x, d) = 0 THEN NoneOption
    ELSE Some(AlterationFromU8(SlotCode(x, d)).val)

\* C10: for every formula x (any 32-bit value) and degree d in 0..=255,
\* get_degree_alteration(d) is None exactly when d is outside 1..=15 or slot d is
\* 0 and otherwise Some of the decoded slot; has_any_degree(d) holds exactly when
\* get_degree_alteration(d) is Some; has_degree(d, a) holds exactly when
\* get_degree_alteration(d) == Some(a).
C10_ReadersAgree ==
    /\ (op = "get_degree_alteration") => ret = DecodedSlot(self, arg.degree)
    /\ (op = "has_any_degree") =>
            ret = (get_degree_alteration(self, arg.degree) # NoneOption)
    /\ (op = "has_degree") =>
            ret = (get_degree_alteration(self, arg.degree) = Some(arg.alteration))
    /\ (op \in ChordConstructors) =>
            \A d \in U8 :
                /\ get_degree_alteration(self, d) = DecodedSlot(self, d)
                /\ (d \in 1..15 /\ SlotCode(self, d) # 0) =>
                        ~AlterationFromU8(SlotCode(self, d)).panicked
                /\ has_any_degree(self, d) = (get_degree_alteration(self, d) # NoneOption)
                /\ \A a \in DegreeAlteration :
                        has_degree(self, d, a) = (get_degree_alteration(self, d) = Some(a))

\* A reader on a word no with_degree call produces (reserved bits set).
C10_Witness ==
    /\ op = "get_degree_alteration"
    /\ {30, 31} \subseteq self
    /\ arg.degree = 15
    /\ ret = Some("Sharp")
    /\ has_any_degree(self, 15)
    /\ ~has_any_degree(self, 16)

\* C11: for every ChordFormula x (any 32-bit value), x.degrees() lists exactly
\* the pairs (d, alt) with d in 1..=15 whose slot is non-zero, each once, alt
\* being the alteration stored in slot d, in strictly ascending order of d; its
\* length is at most 15.
C11_DegreesListsPresentSlots ==
    (op = "degrees") =>
        /\ Len(ret) <= 15
        /\ \A k \in 1..Len(ret) :
                /\ ret[k][1] \in 1..15
                /\ SlotCode(self, ret[k][1]) # 0
                /\ ret[k][2] \in DegreeAlteration
                /\ AlterationToU8(ret[k][2]) = SlotCode(self, ret[k][1])
        /\ \A j \in 1..Len(ret), k \in 1..Len(ret) : (j < k) => (ret[j][1] < ret[k][1])
        /\ \A d \in 1..15 :
                (SlotCode(self, d) # 0) => \E k \in 1..Len(ret) : ret[k][1] = d

\* degrees() of 0xFFFFFFFF: all 15 slots, the reserved field is not listed.
C11_Witness ==
    /\ op = "degrees"
    /\ self = BitNot(Lit(0))
    /\ Len(ret) = 15
    /\ ret[1] = <<1, "Sharp">>
    /\ ret[15] = <<15, "Sharp">>

\* C23: minor_seventh().degrees() is exactly [(1, None), (3, Flat), (5, None),
\* (7, Flat)] in that order, and minor_seventh() equals the formula built from
\* the raw bits 1 | (2 << 4) | (1 << 8) | (2 << 12) = 0x2121; a formula built
\* from empty() by with_degree on 1, 3, 5 equals major_triad() (3 natural) or
\* minor_triad() (3 flat).
C23_MinorSeventhLayout ==
    LET raw == BitOr(BitOr(Lit(1), Shl(Lit(2), 4)), BitOr(Shl(Lit(1), 8), Shl(Lit(2), 12)))
        triad(third) ==
            with_degree(with_degree(with_degree(ChordEmpty, 1, "None"), 3, third), 5, "None")
    IN  /\ (op = "degrees" /\ self = minor_seventh) =>
                ret = <<<<1, "None">>, <<3, "Flat">>, <<5, "None">>, <<7, "Flat">>>>
        /\ (op = "minor_seventh") =>
                /\ ret = ChordNew(raw)
                /\ ChordBits(ret) = Lit(8481)
        /\ (op = "major_triad") => ret = triad("None")
        /\ (op = "minor_triad") => ret = triad("Flat")

C23_Witness ==
    /\ op = "degrees"
    /\ self = minor_seventh
    /\ Len(ret) = 4
    /\ ret[2] = <<3, "Flat">>
    /\ ret[4] = <<7, "Flat">>

\* C29: for every ChordFormula x, every degree d in 1..=15 absent in x (slot 0)
\* and every alteration a, x.union(empty().with_degree(d, a)) ==
\* x.with_degree(d, a); major_triad().union(empty().with_degree(7, None)) ==
\* major_seventh().
C29_UnionWithSingleDegreeIsWithDegree ==
    (op = "union") =>
        /\ \A d \in 1..15, a \in DegreeAlteration :
                (arg.other = with_degree(ChordEmpty, d, a) /\ SlotCode(self, d) = 0) =>
                    ret = with_degree(self, d, a)
        /\ (self = major_triad /\ arg.other = with_degree(ChordEmpty, 7, "None")) =>
                ret = major_seventh

C29_Witness ==
    /\ op = "union"
    /\ self = major_triad
    /\ arg.other = with_degree(ChordEmpty, 7, "None")
    /\ ret = major_seventh
    /\ ret # self

(***************************************************************************)
(* Chains of chord calls.  A behaviour constructs a formula and rebinds it *)
(* to the result of with_degree or union, at most MaxChordCalls times:     *)
(*     let x = ChordFormula::empty();                                      *)
(*     let x = x.with_degree(9, Flat);                                     *)
(*     let x = x.union(other); ...                                         *)
(* `self` is the receiver of the last call, `ret` the current value of x   *)
(* and `arg` the calls made so far, the constructor first.                 *)
(***************************************************************************)
MaxChordCalls == 2

\* Degree arguments of the chained with_degree calls: two no-op values on
\* each side of 1..15 and three slots.
ChainDegrees == {0, 1, 9, 15, 16, U8Max}

\* The other operand of a chained union (none of them built by new).
ChainOthers ==
    {with_degree(ChordEmpty, 1, "Flat"), with_degree(ChordEmpty, 15, "None"),
     minor_seventh, altered_dominant}

\* let x = ChordFormula::empty(); or a named constructor
ChainStart(name) ==
    /\ self = (IF name = "empty" THEN ChordEmpty ELSE NamedChord(name))
    /\ op = name
    /\ arg = <<<<name>>>>
    /\ ret = self

\* let x = ChordFormula::new(bits);
ChainStartNew(bits) ==
    /\ self = ChordNew(bits)
    /\ op = "new"
    /\ arg = <<<<"new", bits>>>>
    /\ ret = self

InitChain ==
    \/ \E name \in {"empty"} \cup NamedChordNames : ChainStart(name)
    \/ \E bits \in DenseChords : ChainStartNew(bits)

\* let x = x.with_degree(degree, alteration);
ChainWithDegree(degree, alteration) ==
    /\ Len(arg) <= MaxChordCalls
    /\ self' = ret
    /\ op' = "with_degree"
    /\ arg' = Append(arg, <<"with_degree", degree, alteration>>)
    /\ ret' = with_degree(ret, degree, alteration)

\* let x = x.union(other);
ChainUnion(other) ==
    /\ Len(arg) <= MaxChordCalls
    /\ self' = ret
    /\ op' = "union"
    /\ arg' = Append(arg, <<"union", other>>)
    /\ ret' = chord_union(ret, other)

NextChain ==
    \/ \E degree \in ChainDegrees, alteration \in DegreeAlteration :
            ChainWithDegree(degree, alteration)
    \/ \E other \in ChainOthers : ChainUnion(other)

SpecChain == InitChain /\ [][NextChain]_vars

(***************************************************************************)
(* Properties of the chains of chord calls (checked under SpecChain)       *)
(***************************************************************************)
\* The calls of a chain after its constructor.
Calls(history) == SubSeq(history, 2, Len(history))

\* The alteration of the last with_degree call on degree d, if there is one.
LastWrite(calls, d) ==
    LET writes == {k \in 1..Len(calls) : calls[k][1] = "with_degree" /\ calls[k][2] = d}
    IN  IF writes = {} THEN NoneOption
        ELSE Some(calls[CHOOSE k \in writes : \A j \in writes : j <= k][3])

\* The value of a chain of with_degree calls made on x.
RECURSIVE Replay(_, _)
Replay(x, calls) ==
    IF calls = <<>> THEN x
    ELSE Replay(with_degree(x, Head(calls)[2], Head(calls)[3]), Tail(calls))

\* C25: starting from empty() and applying any sequence of with_degree(d_i, a_i)
\* calls (each d_i any u8), get_degree_alteration(d) of the result, for each d
\* in 1..=15, is Some of the alteration of the last call whose degree is d, or
\* None if no call used d; a later write to a degree replaces the earlier one,
\* repeating a write changes nothing, and writes to different degrees commute.
C25_LastWriteWins ==
    (arg[1] = <<"empty">> /\ \A k \in 2..Len(arg) : arg[k][1] = "with_degree") =>
        LET calls == Calls(arg)
            n == Len(calls)
        IN  /\ ret = Replay(ChordEmpty, calls)
            /\ \A d \in 1..15 : get_degree_alteration(ret, d) = LastWrite(calls, d)
            /\ (n >= 1) => Replay(ChordEmpty, Append(calls, calls[n])) = ret
            /\ (n >= 2 /\ calls[n][2] = calls[n - 1][2]) =>
                    ret = Replay(ChordEmpty, SubSeq(calls, 1, n - 2) \o <<calls[n]>>)
            /\ (n >= 2 /\ calls[n][2] # calls[n - 1][2]) =>
                    ret = Replay(ChordEmpty,
                                 SubSeq(calls, 1, n - 2) \o <<calls[n], calls[n - 1]>>)

\* Two writes to degree 9: the second one is what is read back.
C25_Witness ==
    /\ arg = <<<<"empty">>, <<"with_degree", 9, "Flat">>, <<"with_degree", 9, "Sharp">>>>
    /\ get_degree_alteration(self, 9) = Some("Flat")
    /\ get_degree_alteration(ret, 9) = Some("Sharp")

\* C26: every ChordFormula reached from empty() or a named constructor through
\* with_degree and union calls (without new) has bits 30 and 31 equal to 0, so
\* is_empty() is true exactly when degrees() is empty.
C26_ReservedBitsStayZero ==
    (arg[1][1] # "new") =>
        /\ 30 \notin ret
        /\ 31 \notin ret
        /\ ChordIsEmpty(ret) <=> (degrees(ret) = <<>>)

\* A chain that writes the highest slot, next to the reserved bits.
C26_Witness ==
    /\ arg[1] = <<"empty">>
    /\ Len(arg) = 3
    /\ arg[2] = <<"with_degree", 15, "Sharp">>
    /\ op = "union"
    /\ {28, 29} \subseteq ret
    /\ ret \cap {30, 31} = {}

\* C28: along any sequence of with_degree and union calls, once
\* has_any_degree(d) is true for a degree d in 1..=15 it is true in every later
\* value (its alteration may change), and x.union(y).has_any_degree(d) is true
\* exactly when x or y has degree d.
C28_DegreesAreNeverRemoved ==
    /\ [][\A d \in 1..15 : has_any_degree(ret, d) => has_any_degree(ret', d)]_vars
    /\ [](op = "union" =>
            \A d \in 1..15 :
                has_any_degree(ret, d) <=>
                    (has_any_degree(self, d) \/ has_any_degree(arg[Len(arg)][2], d)))

\* A write that changes the alteration of a degree already present.
C28_Witness ==
    /\ op = "with_degree"
    /\ arg[Len(arg)] = <<"with_degree", 9, "None">>
    /\ get_degree_alteration(self, 9) = Some("Sharp")
    /\ get_degree_alteration(ret, 9) = Some("None")
    /\ has_any_degree(ret, 9)

(***************************************************************************)
(* Note and Semitone (note.rs, semitone.rs): u8 wrappers                   *)
(***************************************************************************)
SEMITONES_IN_OCTAVE == 12

NoteNew(semitone) == semitone

SemitoneNew(value) == value

\* impl Add<Semitone> for Note
NoteAdd(note, rhs) == NoteNew(saturating_add(note, rhs))

(***************************************************************************)
(* ScaleFormula (scale_formula.rs)                                         *)
(***************************************************************************)
ScaleNew(bits) == bits

ScaleEmpty == Lit(0)

chromatic == Lit((2 ^ SEMITONES_IN_OCTAVE) - 1)

chromatic_extended == Lit((2 ^ (2 * SEMITONES_IN_OCTAVE)) - 1)

\* 0b101010110101
MAJOR_PATTERN == Lit(2741)

major == Lit(2741)

\* Faulty variant of major_extended: the second copy is not shifted.
major_extended_unshifted == BitOr(MAJOR_PATTERN, MAJOR_PATTERN)

major_extended == BitOr(MAJOR_PATTERN, Shl(MAJOR_PATTERN, SEMITONES_IN_OCTAVE))

\* 0b010110101101
minor == Lit(1453)

\* 0b001010010101
pentatonic_major == Lit(661)

\* 0b010010101001
pentatonic_minor == Lit(1193)

\* 0b010011101001
blues == Lit(1257)

\* the loop of from_semitones over the rest of the slice
RECURSIVE FromSemitonesLoop(_, _)
FromSemitonesLoop(bits, rest) ==
    IF rest = <<>> THEN bits
    ELSE LET semitone == Head(rest)
         IN  FromSemitonesLoop(IF semitone < 2 * SEMITONES_IN_OCTAVE
                               THEN BitOr(bits, Shl(Lit(1), semitone))
                               ELSE bits,
                               Tail(rest))

\* Faulty variant of from_semitones: offset 24 is let through (<= for <).
from_semitones_inclusive_limit(list) ==
    FromSemitonesLoop(Lit(0), list)
        \cup {i \in {2 * SEMITONES_IN_OCTAVE} : \E k \in 1..Len(list) : list[k] = i}

from_semitones(list) == FromSemitonesLoop(Lit(0), list)

\* Faulty variant of contains_semitone: no range check before the shift.
contains_semitone_unguarded(x, semitone) ==
    semitone < WordBits /\ BitAnd(x, Shl(Lit(1), semitone)) # Lit(0)

contains_semitone(x, semitone) ==
    IF semitone >= 2 * SEMITONES_IN_OCTAVE THEN FALSE
    ELSE BitAnd(x, Shl(Lit(1), semitone)) # Lit(0)

\* self.0.count_ones() as u8
note_count(x) == Cardinality(x) % (U8Max + 1)

\* the loop of semitones(), from index i on
RECURSIVE SemitonesFrom(_, _)
SemitonesFrom(x, i) ==
    IF i >= 2 * SEMITONES_IN_OCTAVE THEN <<>>
    ELSE (IF contains_semitone(x, i) THEN <<i>> ELSE <<>>) \o SemitonesFrom(x, i + 1)

\* Faulty variant of semitones: the loop runs over all 32 bits.
semitones_all_bits(x) ==
    SemitonesFrom(x, 0) \o SelectSeq(<<24, 25, 26, 27, 28, 29, 30, 31>>, LAMBDA i : i \in x)

semitones(x) == SemitonesFrom(x, 0)

notes_from_root(x, root) ==
    LET offsets == semitones(x)
    IN  [k \in 1..Len(offsets) |-> NoteAdd(root, SemitoneNew(offsets[k]))]

ScaleBits(x) == x

ScaleIsEmpty(x) == x = Lit(0)

has_root(x) == contains_semitone(x, 0)

\* Faulty variant of union: exclusive or.
scale_union_xor(x, other) == (x \ other) \cup (other \ x)

scale_union(x, other) == BitOr(x, other)

\* Faulty variant of intersection: only the first octave is intersected.
intersection_first_octave(x, other) ==
    BitAnd(BitAnd(x, other), Lit((2 ^ SEMITONES_IN_OCTAVE) - 1))

intersection(x, other) == BitAnd(x, other)

\* impl std::ops::BitOr for ScaleFormula
ScaleBitOr(x, rhs) == scale_union(x, rhs)

\* impl std::ops::BitAnd for ScaleFormula
ScaleBitAnd(x, rhs) == intersection(x, rhs)

\* Faulty variant of complement: the second octave of x is kept as it is.
complement_keep_second_octave(x) ==
    BitOr(BitAnd(BitNot(x), Lit((2 ^ SEMITONES_IN_OCTAVE) - 1)),
          BitAnd(x, Shl(Lit((2 ^ SEMITONES_IN_OCTAVE) - 1), SEMITONES_IN_OCTAVE)))

\* Faulty variant of complement: no mask at all.
complement_unmasked(x) == BitNot(x)

\* Variant of complement masked to both octaves (24 bits).
complement_two_octaves(x) ==
    BitAnd(BitNot(x), Lit((2 ^ (2 * SEMITONES_IN_OCTAVE)) - 1))

complement(x) == BitAnd(BitNot(x), Lit((2 ^ SEMITONES_IN_OCTAVE) - 1))

\* impl std::ops::Not for ScaleFormula
ScaleNot(x) == complement(x)

\* The interval names of Display; "b" stands for the flat sign.
note_names == <<"1", "b2", "2", "b3", "3", "4", "b5", "5", "b6", "6", "b7", "7">>

\* [&str]::join
RECURSIVE Join(_, _)
Join(names, sep) ==
    IF names = <<>> THEN ""
    ELSE IF Len(names) = 1 THEN names[1]
    ELSE names[1] \o sep \o Join(Tail(names), sep)

\* impl fmt::Display for ScaleFormula.  note_names[s as usize] is a checked
\* array index: it panics when s is not below the array's length.
ScaleDisplay(x) ==
    IF ScaleIsEmpty(x) THEN [panicked |-> FALSE, out |-> "Empty"]
    ELSE LET st == semitones(x)
         IN  IF \E k \in 1..Len(st) : st[k] >= Len(note_names)
             THEN [panicked |-> TRUE, out |-> ""]
             ELSE [panicked |-> FALSE,
                   out |-> Join([k \in 1..Len(st) |-> note_names[st[k] + 1]], ", ")]

(***************************************************************************)
(* Inputs of the scale calls                                               *)
(***************************************************************************)
\* Raw words handed to ScaleFormula::new have at most MaxRawBits of their 32
\* bits set.
MaxRawBits == 2

RawScales ==
    {{}} \cup {{p[i] : i \in 1..MaxRawBits} : p \in [1..MaxRawBits -> BitIdx]}

NamedScaleNames ==
    {"chromatic", "chromatic_extended", "major", "major_extended", "minor",
     "pentatonic_major", "pentatonic_minor", "blues"}

NamedScale(name) ==
    CASE name = "chromatic" -> chromatic
      [] name = "chromatic_extended" -> chromatic_extended
      [] name = "major" -> major
      [] name = "major_extended" -> major_extended
      [] name = "minor" -> minor
      [] name = "pentatonic_major" -> pentatonic_major
      [] name = "pentatonic_minor" -> pentatonic_minor
      [] name = "blues" -> blues

\* Slices handed to from_semitones have at most MaxListLen entries, drawn
\* from both sides of the limit 24: in range, reserved positions, beyond 32.
MaxListLen == 4

OffsetInputs == {0, 2, 23, 24, 30, U8Max}

SemitoneLists == UNION {[1..n -> OffsetInputs] : n \in 0..MaxListLen}

\* Semitone arguments of contains_semitone.
SemitoneInputs == {0, 11, 12, 23, 24, 31, 32, U8Max}

ScaleConstructors == {"empty", "new", "from_semitones"} \cup NamedScaleNames

RootInputs == {0, 5, 60, 240, U8Max}

\* The other operand of union: the named scales and single bits of each
\* octave and of the reserved byte.
OtherScales ==
    {NamedScale(n) : n \in NamedScaleNames} \cup {Shl(Lit(1), i) : i \in {0, 12, 24, 31}}

(***************************************************************************)
(* The scale calls: construct a formula, call one method on it.            *)
(***************************************************************************)
\* let x = ScaleFormula::empty();
EmptyScale ==
    /\ self = ScaleEmpty
    /\ op = "empty"
    /\ arg = <<>>
    /\ ret = ScaleEmpty

\* let x = ScaleFormula::new(bits);
NewScale(bits) ==
    /\ self = ScaleNew(bits)
    /\ op = "new"
    /\ arg = [bits |-> bits]
    /\ ret = ScaleNew(bits)

\* let x = ScaleFormula::major(); and the other named constants
NamedScaleCall(name) ==
    /\ self = NamedScale(name)
    /\ op = name
    /\ arg = <<>>
    /\ ret = NamedScale(name)

\* let x = ScaleFormula::from_semitones(&list);
FromSemitones(list) ==
    /\ self = from_semitones(list)
    /\ op = "from_semitones"
    /\ arg = [semitones |-> list]
    /\ ret = from_semitones(list)

InitScale ==
    \/ EmptyScale
    \/ \E bits \in RawScales : NewScale(bits)
    \/ \E name \in NamedScaleNames : NamedScaleCall(name)
    \/ \E list \in SemitoneLists : FromSemitones(list)

\* x.contains_semitone(semitone)
ContainsSemitone(semitone) ==
    /\ op \in ScaleConstructors
    /\ op' = "contains_semitone"
    /\ arg' = [semitone |-> semitone]
    /\ ret' = contains_semitone(self, semitone)
    /\ UNCHANGED self

\* x.semitones()
Semitones ==
    /\ op \in ScaleConstructors
    /\ op' = "semitones"
    /\ arg' = <<>>
    /\ ret' = semitones(self)
    /\ UNCHANGED self

\* x.notes_from_root(root).collect()
NotesFromRoot(root) ==
    /\ op \in ScaleConstructors
    /\ op' = "notes_from_root"
    /\ arg' = [root |-> root]
    /\ ret' = notes_from_root(self, NoteNew(root))
    /\ UNCHANGED self

\* x.complement()
Complement ==
    /\ op \in ScaleConstructors
    /\ op' = "complement"
    /\ arg' = <<>>
    /\ ret' = complement(self)
    /\ UNCHANGED self

\* format!("{}", x)
Display ==
    /\ op \in ScaleConstructors
    /\ op' = "display"
    /\ arg' = <<>>
    /\ ret' = ScaleDisplay(self)
    /\ UNCHANGED self

\* x.union(other)
ScaleUnion(other) ==
    /\ op \in ScaleConstructors
    /\ op' = "union"
    /\ arg' = [other |-> other]
    /\ ret' = scale_union(self, other)
    /\ UNCHANGED self

\* x.intersection(other)
Intersection(other) ==
    /\ op \in ScaleConstructors
    /\ op' = "intersection"
    /\ arg' = [other |-> other]
    /\ ret' = intersection(self, other)
    /\ UNCHANGED self

\* x.note_count()
NoteCount ==
    /\ op \in ScaleConstructors
    /\ op' = "note_count"
    /\ arg' = <<>>
    /\ ret' = note_count(self)
    /\ UNCHANGED self

NextScale ==
    \/ \E root \in RootInputs : NotesFromRoot(root)
    \/ Complement
    \/ Display
    \/ \E other \in OtherScales : ScaleUnion(other)
    \/ \E other \in OtherScales : Intersection(other)
    \/ \E semitone \in SemitoneInputs : ContainsSemitone(semitone)
    \/ Semitones
    \/ NoteCount

SpecScale == InitScale /\ [][NextScale]_vars

(***************************************************************************)
(* Properties of the scale calls (checked under SpecScale)                 *)
(***************************************************************************)
\* C4: for every ScaleFormula x (any 32-bit value, bits 24-31 included) and
\* every root, the number of notes x.notes_from_root(root) yields equals
\* x.note_count(), the population count of x.
C4_NotesLengthIsNoteCount ==
    (op = "notes_from_root") => Len(ret) = note_count(self)

\* The ascending set bits of x below 24, each rendered as entry (bit % 12) of
\* the interval-name table and joined with ", ".
RenderedModulo(x) ==
    LET set_bits == semitones(x)
    IN  Join([k \in 1..Len(set_bits) |-> note_names[(set_bits[k] % 12) + 1]], ", ")

\* C5: for every non-empty ScaleFormula, those with bits 12-23 set included,
\* Display completes without failure and renders each set bit i in [0,24), in
\* ascending order, as entry i % 12 of the 12-entry interval-name table.
C5_DisplayRendersModulo ==
    (op = "display" /\ ~ScaleIsEmpty(self)) =>
        /\ ~ret.panicked
        /\ ret.out = RenderedModulo(self)

\* C8: for every ScaleFormula x, x.complement().bits() <= 0xFFF and
\* x.complement().complement().bits() == x.bits() & 0xFFF, so the double
\* complement is x exactly when x has no bit at position 12 or above.
C8_ComplementMasked ==
    (op = "complement") =>
        /\ U32Leq(ScaleBits(ret), Lit(4095))
        /\ ScaleBits(complement(ret)) = BitAnd(ScaleBits(self), Lit(4095))
        /\ (complement(ret) = self) <=> (\A i \in self : i < 12)

C8_Witness ==
    /\ op = "complement"
    /\ self = {2, 12}
    /\ ret = (0..11) \ {2}
    /\ complement(ret) = {2}

\* C17: for every list L of u8 offsets, from_semitones(L) has bit s set exactly
\* when s < 24 and s occurs in L, and no bit at position 24 or above; so
\* from_semitones(L).semitones() is the ascending duplicate-free list of the
\* elements of L below 24, whatever the order and repetition in L, and offsets
\* >= 24 are dropped.
C17_FromSemitonesSetsListedBits ==
    (op = "from_semitones") =>
        LET L == arg.semitones
            listed == {L[k] : k \in 1..Len(L)}
            st == semitones(ret)
            reversed == [k \in 1..Len(L) |-> L[Len(L) + 1 - k]]
        IN  /\ \A s \in BitIdx : (s \in ret) <=> (s < 24 /\ s \in listed)
            /\ \A s \in ret : s < 24
            /\ {st[k] : k \in 1..Len(st)} = {s \in listed : s < 24}
            /\ \A j \in 1..Len(st), k \in 1..Len(st) : (j < k) => (st[j] < st[k])
            /\ from_semitones(reversed) = ret
            /\ from_semitones(L \o L) = ret

\* from_semitones(&[0, 2, 24, 30]).semitones() == [0, 2]
C17_Witness ==
    /\ op = "from_semitones"
    /\ arg.semitones = <<0, 2, 24, 30>>
    /\ ret = {0, 2}
    /\ semitones(ret) = <<0, 2>>

\* C18: for every ScaleFormula x (any 32-bit value, bits 24-31 included) and
\* every s in 0..=255, x.contains_semitone(s) equals bit s of x when s < 24
\* and is false when s >= 24.
C18_ContainsSemitoneIsBitBelow24 ==
    /\ (op = "contains_semitone") => (ret <=> (arg.semitone < 24 /\ arg.semitone \in self))
    /\ (op \in ScaleConstructors) =>
            \A s \in U8 : contains_semitone(self, s) <=> (s < 24 /\ s \in self)

\* Bit 24 is set in the word and contains_semitone(24) is false.
C18_Witness ==
    /\ op = "contains_semitone"
    /\ arg.semitone = 24
    /\ 24 \in self
    /\ ret = FALSE

\* C19: for every ScaleFormula x (any 32-bit value), x.semitones() is the
\* strictly ascending list of exactly the positions i in [0,24) whose bit is
\* set in x; bits 24-31 never contribute an entry.
C19_SemitonesAreSetBitsBelow24 ==
    (op = "semitones") =>
        /\ {ret[k] : k \in 1..Len(ret)} = {i \in 0..23 : i \in self}
        /\ \A j \in 1..Len(ret), k \in 1..Len(ret) : (j < k) => (ret[j] < ret[k])
        /\ Len(ret) = Cardinality({i \in 0..23 : i \in self})

C19_Witness ==
    /\ op = "semitones"
    /\ self = {23, 31}
    /\ ret = <<23>>

C21_UnionIntersectionAreSetOperations ==
    /\ (op = "union") =>
            /\ \A s \in 0..23 :
                    contains_semitone(ret, s) <=>
                        (contains_semitone(self, s) \/ contains_semitone(arg.other, s))
            /\ ScaleBitOr(self, arg.other) = ret
    /\ (op = "intersection") =>
            /\ \A s \in 0..23 :
                    contains_semitone(ret, s) <=>
                        (contains_semitone(self, s) /\ contains_semitone(arg.other, s))
            /\ ScaleBitAnd(self, arg.other) = ret

\* Two scales that share second-octave semitones, neither containing the other.
C21_Witness ==
    /\ op = "intersection"
    /\ self = {2, 14}
    /\ arg.other = major_extended
    /\ ret = {2, 14}
    /\ contains_semitone(ret, 14)

\* C24: major().semitones() == [0,2,4,5,7,9,11] with note_count() == 7, and
\* major_extended() is the major pattern repeated one octave higher: its
\* semitones() == [0,2,4,5,7,9,11,12,14,16,17,19,21,23], note_count() == 14,
\* and it contains semitones 14, 17 and 21.
C24_MajorAndMajorExtended ==
    /\ (op = "semitones" /\ self = major) => ret = <<0, 2, 4, 5, 7, 9, 11>>
    /\ (op = "note_count" /\ self = major) => ret = 7
    /\ (op = "semitones" /\ self = major_extended) =>
            ret = <<0, 2, 4, 5, 7, 9, 11, 12, 14, 16, 17, 19, 21, 23>>
    /\ (op = "note_count" /\ self = major_extended) => ret = 14
    /\ (op = "major_extended") =>
            /\ contains_semitone(ret, 14)
            /\ contains_semitone(ret, 17)
            /\ contains_semitone(ret, 21)
            /\ \A i \in 0..11 :
                    /\ contains_semitone(ret, i) <=> contains_semitone(major, i)
                    /\ contains_semitone(ret, i + 12) <=> contains_semitone(major, i)

C24_Witness ==
    /\ op = "note_count"
    /\ self = major_extended
    /\ ret = 14
    /\ semitones(self)[9] = 14

\* C30: for every ScaleFormula x (any 32-bit value): for each s in 0..=11,
\* x.complement().contains_semitone(s) is the negation of
\* x.contains_semitone(s); for each s >= 12 it is false whatever x holds in its
\* second octave; hence x.intersection(x.complement()) is empty and !x returns
\* what x.complement() returns.
C30_ComplementWithinFirstOctave ==
    (op = "complement") =>
        /\ \A s \in 0..11 : contains_semitone(ret, s) <=> ~contains_semitone(self, s)
        /\ \A s \in 12..U8Max : ~contains_semitone(ret, s)
        /\ ScaleIsEmpty(intersection(self, ret))
        /\ ScaleNot(self) = ret

\* A two-octave scale: its complement has nothing in the second octave.
C30_Witness ==
    /\ op = "complement"
    /\ self = major_extended
    /\ ret = {1, 3, 6, 8, 10}
    /\ ~contains_semitone(self, 13)
    /\ ~contains_semitone(ret, 13)

(***************************************************************************)
(* Chains of scale calls.  A behaviour constructs a formula and rebinds it *)
(* to the result of union, intersection or complement, at most             *)
(* MaxScaleCalls times.  `self` is the receiver of the last call, `ret`    *)
(* the current value and `arg` the calls made so far, the constructor      *)
(* first.                                                                  *)
(***************************************************************************)
MaxScaleCalls == 2

\* Slices handed to from_semitones at the start of a chain.
ChainLists == {<<0, 2, 24, 30>>, <<23, U8Max>>, <<11, 12>>}

\* Raw words handed to new at the start of a chain.
ChainRawScales == {Shl(Lit(1), 24), BitOr(Lit(1), Shl(Lit(1), 31))}

\* The other operand of a chained union or intersection (none built by new).
ChainOtherScales == {major, chromatic_extended, pentatonic_minor, from_semitones(<<23, 24>>)}

\* let x = ScaleFormula::empty(); or a named constant
ScaleChainStart(name) ==
    /\ self = (IF name = "empty" THEN ScaleEmpty ELSE NamedScale(name))
    /\ op = name
    /\ arg = <<<<name>>>>
    /\ ret = self

\* let x = ScaleFormula::from_semitones(&list);
ScaleChainStartFromSemitones(list) ==
    /\ self = from_semitones(list)
    /\ op = "from_semitones"
    /\ arg = <<<<"from_semitones", list>>>>
    /\ ret = self

\* let x = ScaleFormula::new(bits);
ScaleChainStartNew(bits) ==
    /\ self = ScaleNew(bits)
    /\ op = "new"
    /\ arg = <<<<"new", bits>>>>
    /\ ret = self

InitScaleChain ==
    \/ \E name \in {"empty"} \cup NamedScaleNames : ScaleChainStart(name)
    \/ \E list \in ChainLists : ScaleChainStartFromSemitones(list)
    \/ \E bits \in ChainRawScales : ScaleChainStartNew(bits)

\* let x = x.union(other);
ScaleChainUnion(other) ==
    /\ Len(arg) <= MaxScaleCalls
    /\ self' = ret
    /\ op' = "union"
    /\ arg' = Append(arg, <<"union", other>>)
    /\ ret' = scale_union(ret, other)

\* let x = x.intersection(other);
ScaleChainIntersection(other) ==
    /\ Len(arg) <= MaxScaleCalls
    /\ self' = ret
    /\ op' = "intersection"
    /\ arg' = Append(arg, <<"intersection", other>>)
    /\ ret' = intersection(ret, other)

\* let x = x.complement();
ScaleChainComplement ==
    /\ Len(arg) <= MaxScaleCalls
    /\ self' = ret
    /\ op' = "complement"
    /\ arg' = Append(arg, <<"complement">>)
    /\ ret' = complement(ret)

NextScaleChain ==
    \/ \E other \in ChainOtherScales : ScaleChainUnion(other)
    \/ \E other \in ChainOtherScales : ScaleChainIntersection(other)
    \/ ScaleChainComplement

SpecScaleChain == InitScaleChain /\ [][NextScaleChain]_vars

(***************************************************************************)
(* Properties of the chains of scale calls (checked under SpecScaleChain)  *)
(***************************************************************************)
\* C27: every ScaleFormula reached from empty(), the named constants and
\* from_semitones through union, intersection and complement calls (without
\* new) has bits 24-31 equal to 0, so note_count() equals semitones().len()
\* and is_empty() is true exactly when semitones() is empty.
C27_ReservedByteStaysZero ==
    (arg[1][1] # "new") =>
        /\ \A i \in 24..31 : i \notin ret
        /\ note_count(ret) = Len(semitones(ret))
        /\ ScaleIsEmpty(ret) <=> (semitones(ret) = <<>>)

\* The complement of a scale whose highest semitone is 23.
C27_Witness ==
    /\ arg = <<<<"from_semitones", <<23, U8Max>>>>, <<"complement">>>>
    /\ self = {23}
    /\ ret = 0..11
    /\ note_count(ret) = 12

(***************************************************************************)
(* Properties of both formula types.  Both wrap a u32, so a word reached   *)
(* as the raw integer of one type is also an argument of the other's new.  *)
(***************************************************************************)
\* C12: for every 32-bit value x, ChordFormula::new(x).bits() == x and
\* ScaleFormula::new(x).bits() == x, and for every formula f of either type
\* new(f.bits()) == f, so the rebuilt formula answers every query as f does.
\* (checked under Spec)
C12_NewBitsRoundTrip ==
    /\ (op = "new") =>
            /\ ChordBits(ret) = arg.bits
            /\ ScaleBits(ScaleNew(arg.bits)) = arg.bits
    /\ (op = "bits") =>
            /\ ChordNew(ret) = self
            /\ ScaleNew(ScaleBits(ScaleNew(ret))) = ScaleNew(ret)
            /\ degrees(ChordNew(ret)) = degrees(self)
            /\ \A d \in DegreeInputs :
                    /\ get_degree_alteration(ChordNew(ret), d) = get_degree_alteration(self, d)
                    /\ has_any_degree(ChordNew(ret), d) = has_any_degree(self, d)
            /\ semitones(ScaleNew(ScaleBits(ScaleNew(ret)))) = semitones(ScaleNew(ret))
            /\ note_count(ScaleNew(ScaleBits(ScaleNew(ret)))) = note_count(ScaleNew(ret))

\* The raw integer of a word with the reserved bits set, read back.
C12_Witness ==
    /\ op = "bits"
    /\ {0, 30, 31} \subseteq self
    /\ ret = self
    /\ ChordNew(ret) = self

\* C13: for all ChordFormula values x, y, z and all ScaleFormula values x, y, z
\* (any 32-bit values), x.union(y) == y.union(x),
\* x.union(y).union(z) == x.union(y.union(z)), and x.union(x) == x.
\* (checked under SpecScale)
C13_UnionLaws ==
    (op = "union") =>
        LET x == self
            y == arg.other
            cx == ChordNew(ScaleBits(x))
            cy == ChordNew(ScaleBits(y))
        IN  /\ ret = scale_union(y, x)
            /\ scale_union(x, x) = x
            /\ scale_union(y, y) = y
            /\ scale_union(ret, ret) = ret
            /\ \A z \in OtherScales :
                    scale_union(ret, z) = scale_union(x, scale_union(y, z))
            /\ chord_union(cx, cy) = chord_union(cy, cx)
            /\ chord_union(cx, cx) = cx
            /\ chord_union(cy, cy) = cy
            /\ \A cz \in OtherChords :
                    chord_union(chord_union(cx, cy), cz) = chord_union(cx, chord_union(cy, cz))

\* Operands that overlap without either containing the other.
C13_Witness ==
    /\ op = "union"
    /\ self = {0, 31}
    /\ arg.other = major
    /\ ret = major \cup {31}
    /\ ret # self
    /\ ret # arg.other

(***************************************************************************)
(* FormulaDegree (formula_degree.rs)                                       *)
(***************************************************************************)
FormulaDegreeTags == {"Natural", "Flat", "Sharp"}

natural(degree) == [tag |-> "Natural", degree |-> degree]

flat(degree) == [tag |-> "Flat", degree |-> degree]

sharp(degree) == [tag |-> "Sharp", degree |-> degree]

FormulaDegreeOf(tag, degree) ==
    CASE tag = "Natural" -> natural(degree)
      [] tag = "Flat" -> flat(degree)
      [] tag = "Sharp" -> sharp(degree)

base_degree(fd) == fd.degree

\* FormulaDegree::alteration() -> i8
fd_alteration(fd) ==
    CASE fd.tag = "Natural" -> 0
      [] fd.tag = "Flat" -> -1
      [] fd.tag = "Sharp" -> 1

\* Faulty variant of is_extended: the seventh counts as extended (>= for >).
is_extended_from_seventh(fd) == base_degree(fd) >= 7

is_extended(fd) == base_degree(fd) > 7

\* matches!(self.base_degree(), 1 | 3 | 5 | 7)
is_chord_tone(fd) == base_degree(fd) \in {1, 3, 5, 7}

\* matches!(self.base_degree(), 2 | 4 | 6 | 9 | 11 | 13)
is_tension(fd) == base_degree(fd) \in {2, 4, 6, 9, 11, 13}

\* v as u8, for an integer v
AsU8(v) == v % (U8Max + 1)

\* Faulty variant of the first match: every degree above 7 is folded into the
\* octave, so there is no unsupported degree above 15.
reduced_degree_modulo(fd) ==
    LET d == base_degree(fd)
    IN  IF d <= 7 THEN Some(d) ELSE Some(((d - 1) % 7) + 1)

\* the first match of to_semitone_offset: the degree brought into the octave
reduced_degree(fd) ==
    LET d == base_degree(fd)
    IN  CASE d <= 7 -> Some(d)
          [] d = 8 -> Some(1)
          [] d = 9 -> Some(2)
          [] d = 10 -> Some(3)
          [] d = 11 -> Some(4)
          [] d = 12 -> Some(5)
          [] d = 13 -> Some(6)
          [] d = 14 -> Some(7)
          [] d = 15 -> Some(1)
          [] OTHER -> NoneOption

\* the second match: the major-scale semitone of the reduced degree
base_semitones(reduced) ==
    CASE reduced = 1 -> Some(0)
      [] reduced = 2 -> Some(2)
      [] reduced = 3 -> Some(4)
      [] reduced = 4 -> Some(5)
      [] reduced = 5 -> Some(7)
      [] reduced = 6 -> Some(9)
      [] reduced = 7 -> Some(11)
      [] OTHER -> NoneOption

\* let adjusted = base_semitones as i8 + self.alteration();
\* None where one of the two matches returns early.
adjusted(fd) ==
    IF reduced_degree(fd) = NoneOption THEN NoneOption
    ELSE IF base_semitones(reduced_degree(fd)[1]) = NoneOption THEN NoneOption
    ELSE Some(base_semitones(reduced_degree(fd)[1])[1] + fd_alteration(fd))

\* Faulty variant of to_semitone_offset: the negative sum is cast, not wrapped.
to_semitone_offset_cast_only(fd) ==
    IF adjusted(fd) = NoneOption THEN NoneOption
    ELSE Some(AsU8(adjusted(fd)[1]) % 12)

to_semitone_offset(fd) ==
    IF adjusted(fd) = NoneOption THEN NoneOption
    ELSE LET adj == adjusted(fd)[1]
             result == IF adj < 0 THEN AsU8(12 + adj) ELSE AsU8(adj) % 12
         IN  Some(result)

(***************************************************************************)
(* The degree calls: construct a FormulaDegree, call one method on it.     *)
(***************************************************************************)
FormulaDegreeConstructors == {"natural", "flat", "sharp"}

ConstructorOf(tag) ==
    CASE tag = "Natural" -> "natural"
      [] tag = "Flat" -> "flat"
      [] tag = "Sharp" -> "sharp"

\* let fd = FormulaDegree::natural(degree); or ::flat(degree), ::sharp(degree)
NewDegree(tag, degree) ==
    /\ self = FormulaDegreeOf(tag, degree)
    /\ op = ConstructorOf(tag)
    /\ arg = [degree |-> degree]
    /\ ret = FormulaDegreeOf(tag, degree)

InitDegree == \E tag \in FormulaDegreeTags, degree \in U8 : NewDegree(tag, degree)

\* fd.to_semitone_offset()
ToSemitoneOffset ==
    /\ op \in FormulaDegreeConstructors
    /\ op' = "to_semitone_offset"
    /\ arg' = <<>>
    /\ ret' = to_semitone_offset(self)
    /\ UNCHANGED self

\* fd.is_extended()
IsExtended ==
    /\ op \in FormulaDegreeConstructors
    /\ op' = "is_extended"
    /\ arg' = <<>>
    /\ ret' = is_extended(self)
    /\ UNCHANGED self

\* fd.is_chord_tone()
IsChordTone ==
    /\ op \in FormulaDegreeConstructors
    /\ op' = "is_chord_tone"
    /\ arg' = <<>>
    /\ ret' = is_chord_tone(self)
    /\ UNCHANGED self

\* fd.is_tension()
IsTension ==
    /\ op \in FormulaDegreeConstructors
    /\ op' = "is_tension"
    /\ arg' = <<>>
    /\ ret' = is_tension(self)
    /\ UNCHANGED self

NextDegree ==
    \/ ToSemitoneOffset
    \/ IsExtended
    \/ IsChordTone
    \/ IsTension

SpecDegree == InitDegree /\ [][NextDegree]_vars

(***************************************************************************)
(* Properties of the degree calls (checked under SpecDegree)               *)
(***************************************************************************)
\* The major-scale semitones of the diatonic slots 1..7.
MajorScaleTable == <<0, 2, 4, 5, 7, 9, 11>>

\* C7: for every degree number n in 1..=15 and every tag, to_semitone_offset()
\* returns Some(v) with v = (T[r(n)] + alt) mod 12 in 0..=11, where
\* r(n) = ((n-1) mod 7) + 1, T = {1:0, 2:2, 3:4, 4:5, 5:7, 6:9, 7:11} and
\* alt = 0/-1/+1; Flat(1), Flat(8), Flat(15) give 11 and Sharp(7), Sharp(14)
\* give 0; the i8 sum and the casts to u8 stay in range.
C7_SemitoneOffsetFormula ==
    (op = "to_semitone_offset" /\ base_degree(self) \in 1..15) =>
        LET n == base_degree(self)
            r == ((n - 1) % 7) + 1
            alt == CASE self.tag = "Natural" -> 0
                     [] self.tag = "Flat" -> -1
                     [] self.tag = "Sharp" -> 1
            v == (MajorScaleTable[r] + alt) % 12
        IN  /\ ret = Some(v)
            /\ ret[1] \in 0..11
            /\ adjusted(self)[1] \in -128..127
            /\ (IF adjusted(self)[1] < 0 THEN 12 + adjusted(self)[1]
                                          ELSE adjusted(self)[1]) \in U8
            /\ (self.tag = "Flat" /\ n \in {1, 8, 15}) => ret = Some(11)
            /\ (self.tag = "Sharp" /\ n \in {7, 14}) => ret = Some(0)
            /\ (self = flat(9)) => ret = Some(1)
            /\ (self = sharp(9)) => ret = Some(3)
            /\ (self = sharp(11)) => ret = Some(6)
            /\ (self = flat(13)) => ret = Some(8)
            /\ (self = natural(15)) => ret = Some(0)

C7_Witness ==
    /\ op = "to_semitone_offset"
    /\ self = flat(15)
    /\ adjusted(self) = Some(-1)
    /\ ret = Some(11)

\* C22: for every FormulaDegree with degree number n in 0..=255 and any tag,
\* is_chord_tone() is true exactly when n is 1, 3, 5 or 7, is_tension() exactly
\* when n is 2, 4, 6, 9, 11 or 13, and is_extended() exactly when n > 7; all
\* three ignore the tag, and no degree is both a chord tone and a tension.
C22_DegreeClassification ==
    /\ (op = "is_chord_tone") => (ret <=> (self.degree = 1 \/ self.degree = 3
                                        \/ self.degree = 5 \/ self.degree = 7))
    /\ (op = "is_tension") => (ret <=> (self.degree = 2 \/ self.degree = 4
                                     \/ self.degree = 6 \/ self.degree = 9
                                     \/ self.degree = 11 \/ self.degree = 13))
    /\ (op = "is_extended") => (ret <=> (self.degree >= 8))
    /\ (op \in {"is_chord_tone", "is_tension", "is_extended"}) =>
            \A tag \in FormulaDegreeTags :
                /\ is_chord_tone(FormulaDegreeOf(tag, self.degree)) = is_chord_tone(self)
                /\ is_tension(FormulaDegreeOf(tag, self.degree)) = is_tension(self)
                /\ is_extended(FormulaDegreeOf(tag, self.degree)) = is_extended(self)
                /\ ~(is_chord_tone(self) /\ is_tension(self))

\* The seventh: a chord tone that is neither extended nor a tension.
C22_Witness ==
    /\ op = "is_extended"
    /\ self = flat(7)
    /\ ret = FALSE
    /\ is_chord_tone(self)
    /\ ~is_tension(self)

\* C16: for every degree number n outside 1..=15 (n = 0 and every n in
\* 16..=255) and every tag, to_semitone_offset() returns None without failing:
\* one of the two matches returns before any arithmetic is done.
C16_OutOfRangeDegreeHasNoOffset ==
    (op = "to_semitone_offset" /\ base_degree(self) \notin 1..15) =>
        /\ ret = NoneOption
        /\ adjusted(self) = NoneOption
        /\ (base_degree(self) = 0) =>
                /\ reduced_degree(self) = Some(0)
                /\ base_semitones(0) = NoneOption
        /\ (base_degree(self) > 15) => reduced_degree(self) = NoneOption

\* Degree 0 passes the first match (0 <= 7) and is rejected by the second;
\* degree 16 is rejected by the first.
C16_Witness ==
    /\ op = "to_semitone_offset"
    /\ self \in {flat(0), sharp(16)}
    /\ ret = NoneOption

====
